---- MODULE Spec2Model ----
(***************************************************************************)
(* A model of packages/compiler-core: the template parser (parse.ts) and   *)
(* the transform pipeline (compile.ts).                                    *)
(*                                                                         *)
(* Strings are sequences of one-character strings.  A JavaScript value     *)
(* that may be undefined, an array or a node is a record with a "type"     *)
(* field, so that any two of them can be compared.                         *)
(***************************************************************************)
EXTENDS Integers, Sequences, FiniteSets, TLC

VARIABLES
  template,   \* the content handed to baseParse
  source,     \* context.source, the text not yet consumed
  ancestors,  \* the ancestors array shared by every parse call
  stack,      \* the call stack of the parser, innermost call last
  result,     \* what baseParse returned (NotReturned until it does)
  error,      \* the error thrown out of baseParse, NoError until then
  closings,   \* history: <<element tag, closing-tag name>> per element closed
  asked,      \* history: numberOfCharacters of the latest advanceBy call
  before,     \* history: context.source when that call was made
  tree,       \* the AST handed to transform: node id -> node, the root is 1
  nodeTransforms, \* context.nodeTransforms
  helpers,    \* context.helpers, a Map: its entries in insertion order
  walk,       \* the call stack of traverseNode, innermost call last
  phase,      \* where transform is: "traverse", "codegen", "helpers", "done"
  rootCodegen,    \* root.codegenNode, a reference (NoRef while unset)
  rootHelpers,    \* root.helpers
  nextRef,    \* the next fresh object reference
  failure,    \* the error thrown out of transform, NoError until then
  log,        \* the shared log the plugins and their cleanups append to
  calls,      \* history: the names context.helper was called with
  options,    \* the options object handed to baseCompile: its nodeTransforms
  compiling   \* where baseCompile is ("idle" when it was not called)

pvars == <<template, source, ancestors, stack, result, error, closings,
           asked, before>>
tvars == <<tree, nodeTransforms, helpers, walk, phase, rootCodegen,
           rootHelpers, nextRef, failure, log, calls>>
cvars == <<options, compiling>>
vars == <<pvars, tvars, cvars>>

-----------------------------------------------------------------------------
(* Bounds of the model *)

MaxPieces == 4
MaxNodes == 3
MaxPlugins == 2

-----------------------------------------------------------------------------
(* JavaScript values *)

Undefined == [type |-> "undefined"]
Array(items) == [type |-> "array", items |-> items]
NotReturned == [type |-> "not returned"]
NoError == [type |-> "none"]

Min(a, b) == IF a < b THEN a ELSE b
Max(a, b) == IF a > b THEN a ELSE b

\* String.prototype.slice(from, to), with its clamping of both indices
Slice(s, from, to) ==
  LET n == Len(s)
      f == IF from < 0 THEN Max(n + from, 0) ELSE Min(from, n)
      t == IF to < 0 THEN Max(n + to, 0) ELSE Min(to, n)
  IN IF f < t THEN SubSeq(s, f + 1, t) ELSE <<>>

\* s[i], zero-based: undefined past the end
CharAt(s, i) == IF i < Len(s) THEN s[i + 1] ELSE "undefined"

Letters == {"a", "b", "x", "A", "B"}

ToLower(c) == CASE c = "A" -> "a" [] c = "B" -> "b" [] OTHER -> c

ToLowerCase(s) == [i \in DOMAIN s |-> ToLower(s[i])]

\* /[a-z]/i.test(c): an undefined c is tested as the text "undefined"
LetterTest(c) == c \in Letters \/ c = "undefined"

\* startsWith (parse.ts 161-163)
startsWith(s, searchString) ==
  /\ Len(s) >= Len(searchString)
  /\ SubSeq(s, 1, Len(searchString)) = searchString

\* String.prototype.indexOf(p, from): -1 when p does not occur from there on
IndexOf(s, p, from) ==
  LET hits == {i \in from..(Len(s) - Len(p)) : SubSeq(s, i + 1, i + Len(p)) = p}
  IN IF hits = {} THEN -1 ELSE CHOOSE i \in hits : \A j \in hits : i <= j

IsSpace(c) == c = " "

\* String.prototype.trim
RECURSIVE TrimStart(_)
TrimStart(s) ==
  IF s # <<>> /\ IsSpace(Head(s)) THEN TrimStart(Tail(s)) ELSE s

RECURSIVE TrimEnd(_)
TrimEnd(s) ==
  IF s # <<>> /\ IsSpace(s[Len(s)]) THEN TrimEnd(SubSeq(s, 1, Len(s) - 1)) ELSE s

Trim_StartOnly(s) == TrimStart(s)

Trim(s) == TrimEnd(TrimStart(s))

-----------------------------------------------------------------------------
(* parse.ts *)

advanceBy_DropsTail(s, numberOfCharacters) ==
  Slice(s, 0, Len(s) - numberOfCharacters)

\* advanceBy (parse.ts 210-214): context.source = context.source.slice(n)
advanceBy(s, numberOfCharacters) == Slice(s, numberOfCharacters, Len(s))

startsWithEndTagOpen_CaseSensitive(s, tag) ==
  /\ startsWith(s, <<"<", "/">>)
  /\ Slice(s, 2, 2 + Len(tag)) = tag

\* startsWithEndTagOpen (parse.ts 147-153)
startsWithEndTagOpen(s, tag) ==
  /\ startsWith(s, <<"<", "/">>)
  /\ ToLowerCase(Slice(s, 2, 2 + Len(tag))) = ToLowerCase(tag)

\* isEnd (parse.ts 127-139): true only on a closing tag of an ancestor
isEnd(s, anc) ==
  /\ startsWith(s, <<"<", "/">>)
  /\ \E i \in 1..Len(anc) : startsWithEndTagOpen(s, anc[i].tag)

\* The characters [^\r\n\t\f />] of the tag pattern
IsTagChar(c) == c \notin {" ", "/", ">"}

\* The length of the longest run of tag characters of s from index i (1-based)
RECURSIVE TagRun(_, _)
TagRun(s, i) ==
  IF i <= Len(s) /\ IsTagChar(s[i]) THEN 1 + TagRun(s, i + 1) ELSE 0

\* /^<\/?([a-z][^\r\n\t\f />]*)/i.exec(s) (parse.ts 98): the match's text and
\* its group 1, or null
TagMatch(s) ==
  LET open == IF startsWith(s, <<"<", "/">>) THEN 2 ELSE 1
  IN IF /\ startsWith(s, <<"<">>)
        /\ Len(s) > open
        /\ s[open + 1] \in Letters
     THEN [type |-> "match",
           length |-> open + TagRun(s, open + 1),
           tag |-> SubSeq(s, open + 1, open + TagRun(s, open + 1))]
     ELSE [type |-> "null"]

\* The object parseTag returns for a start tag (parse.ts 114-118)
Element(tag) == [type |-> "ELEMENT", tag |-> tag, tagType |-> "ELEMENT"]

\* element["children"] = children (parse.ts 85)
WithChildren(element, children) ==
  [type |-> element.type, tag |-> element.tag, tagType |-> element.tagType,
   children |-> children]

\* createRoot (parse.ts 221-227)
createRoot(children) ==
  [type |-> "ROOT", children |-> children, helpers |-> <<>>]

\* The frames of the call stack
ChildrenFrame ==
  [fn |-> "parseChildren", pc |-> "while", nodes |-> <<>>, node |-> Undefined,
   parsed |-> <<>>]
ElementFrame ==
  [fn |-> "parseElement", pc |-> "call", element |-> Undefined,
   children |-> Undefined, inner |-> <<>>, entry |-> <<>>]
TagFrame(type) ==
  [fn |-> "parseTag", pc |-> "exec", tagType |-> type, tag |-> <<>>]
InterpolationFrame ==
  [fn |-> "parseInterpolation", pc |-> "open", closeIndex |-> 0,
   rawContent |-> <<>>, content |-> <<>>, start |-> <<>>]

Top == stack[Len(stack)]
Running == stack # <<>>
InFn(fn, pc) == Running /\ Top.fn = fn /\ Top.pc = pc

\* The stack with its innermost frame replaced
SetTop(f) == [stack EXCEPT ![Len(stack)] = f]
\* The stack with the innermost frame popped and the caller's frame replaced
Return(f) == [SubSeq(stack, 1, Len(stack) - 1) EXCEPT ![Len(stack) - 1] = f]
Caller == stack[Len(stack) - 1]

-----------------------------------------------------------------------------
(* The templates baseParse is called with *)

Lt == "<"
Piece_a == <<Lt, "a", ">">>
Piece_ca == <<Lt, "/", "a", ">">>
Piece_B == <<Lt, "B", ">">>
Piece_ab == <<Lt, "a", "b", ">">>
Piece_cb == <<Lt, "/", "b", ">">>
Piece_cab == <<Lt, "/", "a", "b", ">">>
Piece_c == <<Lt, "/">>
Piece_open == <<"{", "{">>
Piece_close == <<"}", "}">>
Piece_sx == <<" ", "x">>
Piece_xs == <<"x", " ">>

Pieces ==
  {Piece_a, Piece_ca, Piece_B, Piece_ab, Piece_cb, Piece_cab, Piece_c,
   Piece_open, Piece_close, Piece_sx, Piece_xs}

RECURSIVE TemplatesOf(_)
TemplatesOf(k) ==
  IF k = 0 THEN {<<>>}
  ELSE {p \o t : p \in Pieces, t \in TemplatesOf(k - 1)}

Templates == UNION {TemplatesOf(k) : k \in 0..MaxPieces}

-----------------------------------------------------------------------------
(* While the parser runs no transform does, and the other way round *)

NoRef == 0

TransformIdle ==
  /\ tree = <<>>
  /\ nodeTransforms = <<>>
  /\ helpers = <<>>
  /\ walk = <<>>
  /\ phase = "idle"
  /\ rootCodegen = NoRef
  /\ rootHelpers = <<>>
  /\ nextRef = 1
  /\ failure = NoError
  /\ log = <<>>
  /\ calls = <<>>

ParserIdle ==
  /\ template = <<>>
  /\ source = <<>>
  /\ ancestors = <<>>
  /\ stack = <<>>
  /\ result = NotReturned
  /\ error = NoError
  /\ closings = <<>>
  /\ asked = 0
  /\ before = <<>>

CompileIdle ==
  /\ options = Undefined
  /\ compiling = "idle"

-----------------------------------------------------------------------------
(* baseParse (parse.ts 11-16): the context holds the whole content and       *)
(* parseChildren is called with an empty ancestors array                    *)

Init ==
  /\ template \in Templates
  /\ source = template
  /\ ancestors = <<>>
  /\ stack = <<ChildrenFrame>>
  /\ result = NotReturned
  /\ error = NoError
  /\ closings = <<>>
  /\ asked = 0
  /\ before = template
  /\ TransformIdle
  /\ CompileIdle

\* A call of advanceBy on the context
Advance(numberOfCharacters) ==
  /\ source' = advanceBy(source, numberOfCharacters)
  /\ asked' = numberOfCharacters
  /\ before' = source

\* An uncaught throw unwinds every frame
Throw(e) ==
  /\ error' = e
  /\ stack' = <<>>

\* parseChildren, the loop test (parse.ts 38): leave the loop when isEnd
\* holds; the function has no return statement, so its caller gets undefined
ChildrenWhile ==
  /\ InFn("parseChildren", "while")
  /\ IF isEnd(source, ancestors)
     THEN IF Len(stack) = 1
          THEN /\ result' = createRoot(Undefined)
               /\ stack' = <<>>
          ELSE /\ stack' = Return([Caller EXCEPT !.pc = "pop",
                                                 !.children = Undefined,
                                                 !.inner = Top.parsed])
               /\ UNCHANGED result
     ELSE /\ stack' = SetTop([Top EXCEPT !.pc = "dispatch", !.node = Undefined])
          /\ UNCHANGED result
  /\ UNCHANGED <<template, source, ancestors, error, closings, asked, before>>
  /\ UNCHANGED <<tvars, cvars>>

\* parse.ts 42-44
DispatchInterpolation ==
  /\ InFn("parseChildren", "dispatch")
  /\ startsWith(source, <<"{", "{">>)
  /\ stack' = Append(SetTop([Top EXCEPT !.pc = "called"]),
                     [InterpolationFrame EXCEPT !.start = source])
  /\ UNCHANGED <<template, source, ancestors, result, error, closings, asked, before>>
  /\ UNCHANGED <<tvars, cvars>>

\* parse.ts 45-53
DispatchEndTag ==
  /\ InFn("parseChildren", "dispatch")
  /\ ~startsWith(source, <<"{", "{">>)
  /\ CharAt(source, 0) = "<"
  /\ CharAt(source, 1) = "/"
  /\ LetterTest(CharAt(source, 2))
  /\ stack' = Append(SetTop([Top EXCEPT !.pc = "called"]), TagFrame("End"))
  /\ UNCHANGED <<template, source, ancestors, result, error, closings, asked, before>>
  /\ UNCHANGED <<tvars, cvars>>

\* parse.ts 54-57
DispatchElement ==
  /\ InFn("parseChildren", "dispatch")
  /\ ~startsWith(source, <<"{", "{">>)
  /\ CharAt(source, 0) = "<"
  /\ CharAt(source, 1) # "/"
  /\ LetterTest(CharAt(source, 1))
  /\ stack' = Append(SetTop([Top EXCEPT !.pc = "called"]),
                     [ElementFrame EXCEPT !.entry = ancestors])
  /\ UNCHANGED <<template, source, ancestors, result, error, closings, asked, before>>
  /\ UNCHANGED <<tvars, cvars>>

\* No branch of parse.ts 42-58 applies: the loop goes round with nothing done
DispatchNone ==
  /\ InFn("parseChildren", "dispatch")
  /\ ~startsWith(source, <<"{", "{">>)
  /\ \/ CharAt(source, 0) # "<"
     \/ /\ CharAt(source, 1) = "/"
        /\ ~LetterTest(CharAt(source, 2))
     \/ /\ CharAt(source, 1) # "/"
        /\ ~LetterTest(CharAt(source, 1))
  /\ stack' = SetTop([Top EXCEPT !.pc = "while"])
  /\ UNCHANGED <<template, source, ancestors, result, error, closings, asked, before>>
  /\ UNCHANGED <<tvars, cvars>>

\* parseElement, parse.ts 70: the start tag is parsed first
ElementCallTag ==
  /\ InFn("parseElement", "call")
  /\ stack' = Append(SetTop([Top EXCEPT !.pc = "called"]), TagFrame("Start"))
  /\ UNCHANGED <<template, source, ancestors, result, error, closings, asked, before>>
  /\ UNCHANGED <<tvars, cvars>>

\* parse.ts 72-74: push the element and parse its children
ElementPush ==
  /\ InFn("parseElement", "push")
  /\ ancestors' = Append(ancestors, Top.element)
  /\ stack' = Append(SetTop([Top EXCEPT !.pc = "called"]), ChildrenFrame)
  /\ UNCHANGED <<template, source, result, error, closings, asked, before>>
  /\ UNCHANGED <<tvars, cvars>>

\* An array whose first element is removed instead of its last
Pop_Shift(array) == Tail(array)

\* Array.prototype.pop: the array without its last element
Pop(array) == SubSeq(array, 1, Len(array) - 1)

\* parse.ts 75
ElementPop ==
  /\ InFn("parseElement", "pop")
  /\ ancestors' = Pop(ancestors)
  /\ stack' = SetTop([Top EXCEPT !.pc = "close"])
  /\ UNCHANGED <<template, source, result, error, closings, asked, before>>
  /\ UNCHANGED <<tvars, cvars>>

\* parse.ts 78-79: the closing tag is there and is parsed
ElementClose ==
  /\ InFn("parseElement", "close")
  /\ startsWithEndTagOpen(source, Top.element.tag)
  /\ stack' = Append(SetTop([Top EXCEPT !.pc = "called"]), TagFrame("End"))
  /\ UNCHANGED <<template, source, ancestors, result, error, closings, asked, before>>
  /\ UNCHANGED <<tvars, cvars>>

\* parse.ts 80-82
ElementMissingClose ==
  /\ InFn("parseElement", "close")
  /\ ~startsWithEndTagOpen(source, Top.element.tag)
  /\ Throw([type |-> "MissingClosingTag", tag |-> Top.element.tag])
  /\ UNCHANGED <<template, source, ancestors, result, closings, asked, before>>
  /\ UNCHANGED <<tvars, cvars>>

\* parse.ts 85-87: the children are attached and the element returned to the
\* loop of the caller, which assigns it to node and goes round
ElementReturn ==
  /\ InFn("parseElement", "attach")
  /\ LET element == WithChildren(Top.element, Top.children)
     IN stack' = Return([Caller EXCEPT !.pc = "while",
                                       !.node = element,
                                       !.parsed = Append(@, element)])
  /\ UNCHANGED <<template, source, ancestors, result, error, closings, asked, before>>
  /\ UNCHANGED <<tvars, cvars>>

\* parseTag, parse.ts 98-102: match the tag and advance past the match; a
\* null match makes match[1] throw
TagExec ==
  /\ InFn("parseTag", "exec")
  /\ LET match == TagMatch(source)
     IN IF match.type = "null"
        THEN /\ Throw([type |-> "TypeError", tag |-> <<>>])
             /\ UNCHANGED <<source, asked, before>>
        ELSE /\ Advance(match.length)
             /\ stack' = SetTop([Top EXCEPT !.pc = "skip", !.tag = match.tag])
             /\ UNCHANGED error
  /\ UNCHANGED <<template, ancestors, result, closings>>
  /\ UNCHANGED <<tvars, cvars>>

\* parse.ts 105
TagSkip ==
  /\ InFn("parseTag", "skip")
  /\ Advance(1)
  /\ stack' = SetTop([Top EXCEPT !.pc = "return"])
  /\ UNCHANGED <<template, ancestors, result, error, closings>>
  /\ UNCHANGED <<tvars, cvars>>

\* parse.ts 108-118: nothing for an end tag, the element for a start tag
TagReturn ==
  /\ InFn("parseTag", "return")
  /\ IF Top.tagType = "Start"
     THEN /\ stack' = Return([Caller EXCEPT !.pc = "push",
                                            !.element = Element(Top.tag)])
          /\ UNCHANGED closings
     ELSE IF Caller.fn = "parseElement"
          THEN /\ stack' = Return([Caller EXCEPT !.pc = "attach"])
               /\ closings' = Append(closings, <<Caller.element.tag, Top.tag>>)
          ELSE /\ stack' = Return([Caller EXCEPT !.pc = "while"])
               /\ UNCHANGED closings
  /\ UNCHANGED <<template, source, ancestors, result, error, asked, before>>
  /\ UNCHANGED <<tvars, cvars>>

\* parseInterpolation, parse.ts 169-175
InterpolationOpen ==
  /\ InFn("parseInterpolation", "open")
  /\ Advance(2)
  /\ stack' = SetTop([Top EXCEPT !.pc = "text",
                                 !.closeIndex = IndexOf(source, <<"}", "}">>, 2)])
  /\ UNCHANGED <<template, ancestors, result, error, closings>>
  /\ UNCHANGED <<tvars, cvars>>

\* parse.ts 177-181, with parseTextData (parse.ts 193-203)
InterpolationText ==
  /\ InFn("parseInterpolation", "text")
  /\ LET rawContentLength == Top.closeIndex - 2
         rawContent == Slice(source, 0, rawContentLength)
         rawText == Slice(source, 0, Len(rawContent))
     IN /\ Advance(Len(rawContent))
        /\ stack' = SetTop([Top EXCEPT !.pc = "close",
                                       !.rawContent = rawContent,
                                       !.content = Trim(rawText)])
  /\ UNCHANGED <<template, ancestors, result, error, closings>>
  /\ UNCHANGED <<tvars, cvars>>

\* parse.ts 184: past the closer
InterpolationClose ==
  /\ InFn("parseInterpolation", "close")
  /\ Advance(2)
  /\ stack' = SetTop([Top EXCEPT !.pc = "return"])
  /\ UNCHANGED <<template, ancestors, result, error, closings>>
  /\ UNCHANGED <<tvars, cvars>>

\* parseInterpolation has no return statement: node is undefined
InterpolationReturn ==
  /\ InFn("parseInterpolation", "return")
  /\ stack' = Return([Caller EXCEPT !.pc = "while", !.node = Undefined])
  /\ UNCHANGED <<template, source, ancestors, result, error, closings, asked, before>>
  /\ UNCHANGED <<tvars, cvars>>

Next ==
  \/ ChildrenWhile
  \/ DispatchInterpolation
  \/ DispatchEndTag
  \/ DispatchElement
  \/ DispatchNone
  \/ ElementCallTag
  \/ ElementPush
  \/ ElementPop
  \/ ElementClose
  \/ ElementMissingClose
  \/ ElementReturn
  \/ TagExec
  \/ TagSkip
  \/ TagReturn
  \/ InterpolationOpen
  \/ InterpolationText
  \/ InterpolationClose
  \/ InterpolationReturn

Spec == Init /\ [][Next]_vars

FairSpec == Spec /\ WF_vars(Next)

-----------------------------------------------------------------------------
(* compile.ts: transform *)

TO_DISPLAY_STRING == "toDisplayString"
CREATE_ELEMENT_VNODE == "createElementVNode"

\* The trees transform is called with.  A node is a record of its type, the
\* ids of its children in order and its codegenNode reference; node 1 is the
\* root, and the parent of a node has a smaller id.  Interpolation nodes
\* have no children.
NodeTypes == {"ELEMENT", "INTERPOLATION", "TEXT"}

RECURSIVE SortedSeq(_)
SortedSeq(S) ==
  IF S = {} THEN <<>>
  ELSE LET m == CHOOSE x \in S : \A y \in S : x <= y
       IN <<m>> \o SortedSeq(S \ {m})

TreeOf(n, parent, types) ==
  [id \in 1..n |->
     [type |-> IF id = 1 THEN "ROOT" ELSE types[id],
      children |-> SortedSeq({c \in 2..n : parent[c] = id}),
      codegenNode |-> NoRef]]

Trees ==
  UNION {
    {TreeOf(n, parent, types) :
       parent \in {f \in [2..n -> 1..n] :
                     \A c \in 2..n : /\ f[c] < c
                                     /\ f[c] # 1 => types[f[c]] # "INTERPOLATION"}} :
    <<n, types>> \in UNION {{<<m, t>> : t \in [2..m -> NodeTypes]} : m \in 1..MaxNodes}}

\* The node-transform plugins transform is called with.  Every plugin
\* appends to the shared log when it is called, and so does every cleanup it
\* returns when that runs; the log also has an entry for every call of
\* traverseNode.
\*   "noop"       returns nothing
\*   "cleanup"    returns a cleanup
\*   "helper"     registers TO_DISPLAY_STRING and returns nothing
\*   "exitHelper" returns a cleanup that registers CREATE_ELEMENT_VNODE
\*   "codegen"    on an Element returns a cleanup that attaches a new
\*                codegenNode to it, on any other node returns nothing
PluginKinds == {"noop", "cleanup", "helper", "exitHelper", "codegen"}

PluginLists == UNION {[1..k -> PluginKinds] : k \in 0..MaxPlugins}

\* Whether the plugin returns a cleanup for the node
ReturnsCleanup(kind, node) ==
  \/ kind \in {"cleanup", "exitHelper"}
  \/ kind = "codegen" /\ node.type = "ELEMENT"

\* context.helper (compile.ts 118-124): count = helpers.get(name) || 0, then
\* helpers.set(name, count + 1); a Map keeps a key where it was first set
CountOf(h, name) ==
  IF \E i \in DOMAIN h : h[i].name = name
  THEN h[CHOOSE i \in DOMAIN h : h[i].name = name].count
  ELSE 0

\* A helper that does not count: every call leaves the count at 1
helper_CountOne(h, name) ==
  IF \E i \in DOMAIN h : h[i].name = name
  THEN h
  ELSE Append(h, [name |-> name, count |-> 1])

\* A helper that adds an entry per call
helper_EntryPerCall(h, name) ==
  Append(h, [name |-> name, count |-> CountOf(h, name) + 1])

\* A helper that raises the count of every name registered so far
helper_RaisesAll(h, name) ==
  IF \E i \in DOMAIN h : h[i].name = name
  THEN [i \in DOMAIN h |-> [name |-> h[i].name, count |-> h[i].count + 1]]
  ELSE Append([i \in DOMAIN h |-> [name |-> h[i].name, count |-> h[i].count + 1]],
              [name |-> name, count |-> 1])

helper(h, name) ==
  IF \E i \in DOMAIN h : h[i].name = name
  THEN [i \in DOMAIN h |->
          IF h[i].name = name
          THEN [name |-> name, count |-> CountOf(h, name) + 1]
          ELSE h[i]]
  ELSE Append(h, [name |-> name, count |-> CountOf(h, name) + 1])

\* context.helpers.keys()
Keys(h) == [i \in DOMAIN h |-> h[i].name]

\* The log entry of a call of traverseNode on a node
Visit(id) == [ev |-> "visit", plugin |-> 0, node |-> id]

\* A call of traverseNode (compile.ts 52-92): i counts the plugins called,
\* then the cleanups left to run; k counts the children visited
WalkFrame(id) ==
  [node |-> id, pc |-> "plugins", i |-> 0, exitFns |-> <<>>, k |-> 0]

Here == walk[Len(walk)]
Walking(pc) == phase = "traverse" /\ walk # <<>> /\ Here.pc = pc

SetHere(f) == [walk EXCEPT ![Len(walk)] = f]

\* transform (compile.ts 33-38): the context is created, with the plugin list
\* of the options or an empty one, and the walk starts at the root
TransformInit ==
  /\ ParserIdle
  /\ CompileIdle
  /\ tree \in Trees
  /\ nodeTransforms \in PluginLists
  /\ helpers = <<>>
  /\ walk = <<WalkFrame(1)>>
  /\ phase = "traverse"
  /\ rootCodegen = NoRef
  /\ rootHelpers = <<>>
  /\ nextRef = Len(tree) + 1
  /\ failure = NoError
  /\ log = <<Visit(1)>>
  /\ calls = <<>>

\* compile.ts 59-67: the next plugin is called on the node, and the cleanup
\* it returns, if any, is collected
CallPlugin ==
  /\ Walking("plugins")
  /\ Here.i < Len(nodeTransforms)
  /\ LET i == Here.i + 1
         kind == nodeTransforms[i]
         onExit == ReturnsCleanup(kind, tree[Here.node])
     IN /\ log' = Append(log, [ev |-> "enter", plugin |-> i, node |-> Here.node])
        /\ walk' = SetHere([Here EXCEPT
                     !.i = i,
                     !.exitFns = IF onExit THEN Append(@, i) ELSE @])
        /\ IF kind = "helper"
           THEN /\ helpers' = helper(helpers, TO_DISPLAY_STRING)
                /\ calls' = Append(calls, TO_DISPLAY_STRING)
           ELSE UNCHANGED <<helpers, calls>>
  /\ UNCHANGED <<tree, nodeTransforms, phase, rootCodegen, rootHelpers,
                 nextRef, failure>>
  /\ UNCHANGED <<pvars, cvars>>

\* compile.ts 71-74
SwitchInterpolation ==
  /\ Walking("plugins")
  /\ Here.i = Len(nodeTransforms)
  /\ tree[Here.node].type = "INTERPOLATION"
  /\ helpers' = helper(helpers, TO_DISPLAY_STRING)
  /\ calls' = Append(calls, TO_DISPLAY_STRING)
  /\ walk' = SetHere([Here EXCEPT !.pc = "exit", !.i = Len(Here.exitFns)])
  /\ UNCHANGED <<tree, nodeTransforms, phase, rootCodegen, rootHelpers,
                 nextRef, failure, log>>
  /\ UNCHANGED <<pvars, cvars>>

\* compile.ts 76-80: traverseChildren is entered
SwitchChildren ==
  /\ Walking("plugins")
  /\ Here.i = Len(nodeTransforms)
  /\ tree[Here.node].type \in {"ROOT", "ELEMENT"}
  /\ walk' = SetHere([Here EXCEPT !.pc = "children"])
  /\ UNCHANGED <<tree, nodeTransforms, helpers, phase, rootCodegen,
                 rootHelpers, nextRef, failure, log, calls>>
  /\ UNCHANGED <<pvars, cvars>>

\* compile.ts 82-83
SwitchDefault ==
  /\ Walking("plugins")
  /\ Here.i = Len(nodeTransforms)
  /\ tree[Here.node].type \notin {"INTERPOLATION", "ROOT", "ELEMENT"}
  /\ walk' = SetHere([Here EXCEPT !.pc = "exit", !.i = Len(Here.exitFns)])
  /\ UNCHANGED <<tree, nodeTransforms, helpers, phase, rootCodegen,
                 rootHelpers, nextRef, failure, log, calls>>
  /\ UNCHANGED <<pvars, cvars>>

\* A forEach that goes through the children from the last to the first
NextChild_Reversed(children, k) == children[Len(children) - k]

\* parent.children.forEach (compile.ts 101): the child that comes after k
\* children were visited
NextChild(children, k) == children[k + 1]

\* traverseChildren (compile.ts 99-104): the next child is visited
VisitChild ==
  /\ Walking("children")
  /\ Here.k < Len(tree[Here.node].children)
  /\ LET child == NextChild(tree[Here.node].children, Here.k)
     IN /\ walk' = Append(SetHere([Here EXCEPT !.k = @ + 1]), WalkFrame(child))
        /\ log' = Append(log, Visit(child))
  /\ UNCHANGED <<tree, nodeTransforms, helpers, phase, rootCodegen,
                 rootHelpers, nextRef, failure, calls>>
  /\ UNCHANGED <<pvars, cvars>>

\* forEach is over: compile.ts 86, i = exitFns.length
ChildrenDone ==
  /\ Walking("children")
  /\ Here.k = Len(tree[Here.node].children)
  /\ walk' = SetHere([Here EXCEPT !.pc = "exit", !.i = Len(Here.exitFns)])
  /\ UNCHANGED <<tree, nodeTransforms, helpers, phase, rootCodegen,
                 rootHelpers, nextRef, failure, log, calls>>
  /\ UNCHANGED <<pvars, cvars>>

\* compile.ts 89-90: while (i--) exitFns[i](), i being the count left
ExitFnToRun_Forward(exitFns, i) == exitFns[Len(exitFns) - i + 1]

ExitFnToRun(exitFns, i) == exitFns[i]

RunExitFn ==
  /\ Walking("exit")
  /\ Here.i > 0
  /\ LET plugin == ExitFnToRun(Here.exitFns, Here.i)
         kind == nodeTransforms[plugin]
     IN /\ log' = Append(log, [ev |-> "exit", plugin |-> plugin, node |-> Here.node])
        /\ IF kind = "exitHelper"
           THEN /\ helpers' = helper(helpers, CREATE_ELEMENT_VNODE)
                /\ calls' = Append(calls, CREATE_ELEMENT_VNODE)
           ELSE UNCHANGED <<helpers, calls>>
        /\ IF kind = "codegen"
           THEN /\ tree' = [tree EXCEPT ![Here.node].codegenNode = nextRef]
                /\ nextRef' = nextRef + 1
           ELSE UNCHANGED <<tree, nextRef>>
  /\ walk' = SetHere([Here EXCEPT !.i = @ - 1])
  /\ UNCHANGED <<nodeTransforms, phase, rootCodegen, rootHelpers, failure>>
  /\ UNCHANGED <<pvars, cvars>>

\* traverseNode returns; the return of the root's call ends step 2 of
\* transform (compile.ts 38)
WalkReturn ==
  /\ Walking("exit")
  /\ Here.i = 0
  /\ walk' = SubSeq(walk, 1, Len(walk) - 1)
  /\ phase' = IF Len(walk) = 1 THEN "codegen" ELSE phase
  /\ UNCHANGED <<tree, nodeTransforms, helpers, rootCodegen, rootHelpers,
                 nextRef, failure, log, calls>>
  /\ UNCHANGED <<pvars, cvars>>

\* createRootCodegen (compile.ts 146-152) on the first child
RootCodegenNode_AlwaysChild(child) == child

RootCodegenNode(child) ==
  IF tree[child].type = "ELEMENT" /\ tree[child].codegenNode # NoRef
  THEN tree[child].codegenNode
  ELSE child

\* A createRootCodegen that leaves the root alone when it has no child
CreateRootCodegen_Lenient ==
  /\ phase = "codegen"
  /\ rootCodegen' = IF tree[1].children = <<>> THEN NoRef
                    ELSE RootCodegenNode(tree[1].children[1])
  /\ phase' = "helpers"
  /\ UNCHANGED <<tree, nodeTransforms, helpers, walk, rootHelpers, nextRef,
                 failure, log, calls>>
  /\ UNCHANGED <<pvars, cvars>>

\* createRootCodegen (compile.ts 135-153): with no first child, child.type
\* throws and transform ends there
CreateRootCodegen ==
  /\ phase = "codegen"
  /\ IF tree[1].children = <<>>
     THEN /\ failure' = [type |-> "TypeError"]
          /\ phase' = "thrown"
          /\ UNCHANGED rootCodegen
     ELSE /\ rootCodegen' = RootCodegenNode(tree[1].children[1])
          /\ phase' = "helpers"
          /\ UNCHANGED failure
  /\ UNCHANGED <<tree, nodeTransforms, helpers, walk, rootHelpers, nextRef,
                 log, calls>>
  /\ UNCHANGED <<pvars, cvars>>

\* compile.ts 44: root.helpers.push(...context.helpers.keys())
PushHelpers ==
  /\ phase = "helpers"
  /\ rootHelpers' = rootHelpers \o Keys(helpers)
  /\ phase' = "done"
  /\ UNCHANGED <<tree, nodeTransforms, helpers, walk, rootCodegen, nextRef,
                 failure, log, calls>>
  /\ UNCHANGED <<pvars, cvars>>

TransformNext ==
  \/ CallPlugin
  \/ SwitchInterpolation
  \/ SwitchChildren
  \/ SwitchDefault
  \/ VisitChild
  \/ ChildrenDone
  \/ RunExitFn
  \/ WalkReturn
  \/ CreateRootCodegen
  \/ PushHelpers

TransformSpec == TransformInit /\ [][TransformNext]_vars

-----------------------------------------------------------------------------
(* compile.ts: baseCompile *)

\* compile.ts 17: the plugin list baseCompile puts into the options
FixedNodeTransforms ==
  <<"transformElement", "transformText", "transformExpression">>

\* The nodeTransforms of the options a caller hands to baseCompile: none, or
\* a list of the caller's own
CallerOptions == {Undefined, Array(<<"cleanup">>)}

\* Object.assign(options, {nodeTransforms: [...]}) (compile.ts 16-18): the
\* key is set, whatever it held
AssignNodeTransforms(callerValue, list) == Array(list)

CompileInit ==
  /\ template \in Templates
  /\ options \in CallerOptions
  /\ compiling = "start"
  /\ source = <<>>
  /\ ancestors = <<>>
  /\ stack = <<>>
  /\ result = NotReturned
  /\ error = NoError
  /\ closings = <<>>
  /\ asked = 0
  /\ before = <<>>
  /\ TransformIdle

\* baseCompile (compile.ts 9-23): baseParse is called on the template; when
\* it has returned the AST, the options get the fixed plugin list and
\* transform is called with them (compile.ts 33-38); the root baseParse
\* returns holds no collected children
BaseCompile ==
  IF compiling = "start"
  THEN /\ compiling' = "parse"
       /\ source' = template
       /\ before' = template
       /\ stack' = <<ChildrenFrame>>
       /\ UNCHANGED <<template, ancestors, result, error, closings, asked>>
       /\ UNCHANGED <<tvars, options>>
  ELSE /\ compiling = "parse"
       /\ result # NotReturned
       /\ compiling' = "transform"
       /\ options' = AssignNodeTransforms(options, FixedNodeTransforms)
       /\ nodeTransforms' = options'.items
       /\ tree' = <<[type |-> result.type, children |-> <<>>,
                     codegenNode |-> NoRef]>>
       /\ walk' = <<WalkFrame(1)>>
       /\ phase' = "traverse"
       /\ nextRef' = 2
       /\ log' = <<Visit(1)>>
       /\ UNCHANGED <<helpers, rootCodegen, rootHelpers, failure, calls>>
       /\ UNCHANGED pvars

CompileNext ==
  \/ BaseCompile
  \/ Next

CompileSpec == CompileInit /\ [][CompileNext]_vars

FairCompileSpec == CompileSpec /\ WF_vars(CompileNext)

-----------------------------------------------------------------------------
(* Properties of the parser *)

IsSuffix(s, t) ==
  /\ Len(s) <= Len(t)
  /\ s = SubSeq(t, Len(t) - Len(s) + 1, Len(t))

\* A template made only of element tags, properly nested: every tag is a
\* name followed by ">", and every closing tag names the innermost open tag
RECURSIVE WellNested(_, _)
WellNested(s, open) ==
  IF s = <<>> THEN open = <<>>
  ELSE LET match == TagMatch(s)
       IN /\ match.type = "match"
          /\ CharAt(s, match.length) = ">"
          /\ LET rest == SubSeq(s, match.length + 2, Len(s))
             IN IF CharAt(s, 1) = "/"
                THEN /\ open # <<>>
                     /\ open[Len(open)] = match.tag
                     /\ WellNested(rest, SubSeq(open, 1, Len(open) - 1))
                ELSE WellNested(rest, Append(open, match.tag))

Frames == {stack[i] : i \in 1..Len(stack)}

\* C1: on a template of properly nested element tags, every call of
\* parseChildren collects the elements its loop parsed, in source order, and
\* every element gets as children the sequence of the elements parsed inside
\* it (an empty sequence when there are none), as does the root.
C1_ChildrenCollected ==
  WellNested(template, <<>>) =>
    /\ \A f \in Frames :
         /\ f.fn = "parseChildren" => f.nodes = f.parsed
         /\ (f.fn = "parseElement" /\ f.pc = "attach") =>
              f.children = Array(f.inner)
    /\ result # NotReturned => result.children.type = "array"

\* C2: the child-parsing loop stops as soon as the source is exhausted: its
\* body is never entered with an empty context.source.
C2_LoopStopsOnExhaustedSource ==
  ~(InFn("parseChildren", "dispatch") /\ source = <<>>)

\* The tag names an element of a template can be opened with
StartTags == {TagMatch(p).tag : p \in {q \in Pieces : TagMatch(q).type = "match"}}

\* C3: when the input ends while an element is open, the parse fails with
\* MissingClosingTag naming the innermost open element.
C3_MissingClosingTagAtEnd ==
  \A tag \in StartTags :
    (/\ InFn("parseChildren", "while")
     /\ source = <<>>
     /\ ancestors # <<>>
     /\ ancestors[Len(ancestors)].tag = tag)
      ~> (error = [type |-> "MissingClosingTag", tag |-> tag])

\* s begins with a closing tag whose name differs from tag in letter case at
\* most
ClosesIgnoringCase(s, tag) ==
  /\ Len(s) >= Len(tag) + 3
  /\ s[1] = "<"
  /\ s[2] = "/"
  /\ \A i \in 1..Len(tag) : ToLower(s[2 + i]) = ToLower(tag[i])
  /\ s[Len(tag) + 3] = ">"

\* C4: closing-tag matching ignores letter case: a closing tag that differs
\* from the innermost open element's tag in case at most ends that element's
\* child loop, and is then consumed as its closing tag with no error.
C4_CaseInsensitiveClose ==
  [][/\ (/\ InFn("parseChildren", "while")
         /\ ancestors # <<>>
         /\ ClosesIgnoringCase(source, ancestors[Len(ancestors)].tag))
          => (/\ error' = NoError
              /\ Len(stack') = Len(stack) - 1
              /\ stack'[Len(stack')].fn = "parseElement"
              /\ stack'[Len(stack')].pc = "pop")
     /\ (/\ InFn("parseElement", "close")
         /\ ClosesIgnoringCase(source, Top.element.tag))
          => (/\ error' = NoError
              /\ Len(stack') = Len(stack) + 1
              /\ stack'[Len(stack')] = TagFrame("End"))]_vars

\* An element was closed, with no error, by a closing tag in another case
C4_Witness ==
  /\ error = NoError
  /\ \E i \in 1..Len(closings) :
       /\ closings[i][1] # closings[i][2]
       /\ ToLowerCase(closings[i][1]) = ToLowerCase(closings[i][2])

\* The index (zero-based) of the first "}}" of s after its opener
FirstCloser(s) ==
  CHOOSE k \in 2..(Len(s) - 2) :
    /\ SubSeq(s, k + 1, k + 2) = <<"}", "}">>
    /\ \A j \in 2..(k - 1) : SubSeq(s, j + 1, j + 2) # <<"}", "}">>

HasCloser(s) == \E k \in 2..(Len(s) - 2) : SubSeq(s, k + 1, k + 2) = <<"}", "}">>

Spaces(n) == [i \in 1..n |-> " "]

\* C5: when the source of a parseInterpolation call holds a closer, the
\* expression text is what lies between the opener and the first closer
\* less its leading and trailing whitespace, and the call ends with the cursor
\* right after that closer.
C5_InterpolationContent ==
  \A f \in Frames :
    (f.fn = "parseInterpolation" /\ HasCloser(f.start)) =>
      LET k == FirstCloser(f.start)
          between == SubSeq(f.start, 3, k)
      IN /\ startsWith(f.start, <<"{", "{">>)
         /\ f.pc \in {"close", "return"} =>
              /\ f.content = <<>> \/ (f.content[1] # " " /\ f.content[Len(f.content)] # " ")
              /\ \E l, r \in 0..Len(between) :
                   between = Spaces(l) \o f.content \o Spaces(r)
         /\ f.pc = "return" =>
              source = SubSeq(f.start, k + 3, Len(f.start))

\* An interpolation with whitespace on both sides of its text has been parsed
C5_Witness ==
  \E f \in Frames :
    /\ f.fn = "parseInterpolation"
    /\ f.pc = "return"
    /\ HasCloser(f.start)
    /\ f.content # <<>>
    /\ Len(f.rawContent) >= Len(f.content) + 2
    /\ f.rawContent[1] = " "
    /\ f.rawContent[Len(f.rawContent)] = " "

\* The suffix of s from index n (zero-based)
SuffixFrom(s, n) == [i \in 1..Max(Len(s) - n, 0) |-> s[n + i]]

\* C9: the cursor only moves forward: the latest advanceBy(n) left exactly
\* the suffix from index n of the source it was called on, and the remaining
\* source is always a suffix of the template, never longer than before.
C9_CursorMovesForward ==
  /\ asked >= 0
  /\ source = SuffixFrom(before, asked)
  /\ IsSuffix(before, template)
  /\ IsSuffix(source, template)
  /\ Len(source) <= Len(before)

\* The cursor has advanced, more than once, into the middle of the template
C9_Witness ==
  /\ asked > 0
  /\ before # template
  /\ source # <<>>
  /\ Len(source) < Len(before)

-----------------------------------------------------------------------------
(* Properties of the transform pipeline *)

WalkOver == phase \in {"codegen", "helpers", "done", "thrown"}

NodeIds == DOMAIN tree

\* The plugins neither register helpers nor change the tree
PassivePlugins ==
  \A i \in DOMAIN nodeTransforms : nodeTransforms[i] \in {"noop", "cleanup"}

\* The tree is made of Root, Element and Interpolation nodes
PlainTree ==
  \A id \in NodeIds : tree[id].type \in {"ROOT", "ELEMENT", "INTERPOLATION"}

Interpolations == {id \in NodeIds : tree[id].type = "INTERPOLATION"}

\* C6: with plugins that register no helper and leave the tree alone, once
\* the walk of a tree of Root, Element and Interpolation nodes is over the
\* count recorded for TO_DISPLAY_STRING is the number of Interpolation nodes
\* of the tree, at whatever depth they are.
C6_DisplayStringCount ==
  (WalkOver /\ PassivePlugins /\ PlainTree) =>
    CountOf(helpers, TO_DISPLAY_STRING) = Cardinality(Interpolations)

\* transform is over on a tree with an Interpolation below an Element
C6_Witness ==
  /\ phase = "done"
  /\ PassivePlugins
  /\ PlainTree
  /\ nodeTransforms # <<>>
  /\ \E id \in Interpolations : id \notin {tree[1].children[c] : c \in DOMAIN tree[1].children}
  /\ CountOf(helpers, TO_DISPLAY_STRING) = 1

ExitEvents(id) ==
  {p \in DOMAIN log : log[p].ev = "exit" /\ log[p].node = id}

\* C7: the cleanups of a node run in the reverse of their plugins' order in
\* the list: of two cleanups of the same node, the one that ran first is the
\* later plugin's; only a plugin that returned a cleanup for the node has one
\* run; and once the walk is over each such plugin's cleanup has run once for
\* every node its plugin was called on.
C7_CleanupsInReverseOrder ==
  /\ \A id \in NodeIds : \A p, q \in ExitEvents(id) :
       p < q => log[p].plugin > log[q].plugin
  /\ \A p \in DOMAIN log :
       log[p].ev = "exit" =>
         ReturnsCleanup(nodeTransforms[log[p].plugin], tree[log[p].node])
  /\ WalkOver =>
       \A p \in DOMAIN log :
         (/\ log[p].ev = "enter"
          /\ ReturnsCleanup(nodeTransforms[log[p].plugin], tree[log[p].node]))
           => \E q \in ExitEvents(log[p].node) :
                q > p /\ log[q].plugin = log[p].plugin

\* Two plugins both returned a cleanup for a node, both cleanups have run,
\* and a plugin that returned none for a node was called as well
C7_Witness ==
  /\ \E id \in NodeIds : \E p, q \in ExitEvents(id) :
       p < q /\ log[p].plugin = 2 /\ log[q].plugin = 1
  /\ \E p \in DOMAIN log :
       /\ log[p].ev = "enter"
       /\ ~ReturnsCleanup(nodeTransforms[log[p].plugin], tree[log[p].node])

\* C8: after createRootCodegen on a root with a single child, the root's
\* codegenNode is the very reference the child carries as codegenNode when
\* the child is an Element carrying one, and is the reference of the child
\* itself in every other case.
C8_RootCodegenNode ==
  (phase \in {"helpers", "done"} /\ Len(tree[1].children) = 1) =>
    LET child == tree[1].children[1]
    IN /\ (tree[child].type = "ELEMENT" /\ tree[child].codegenNode # NoRef)
            => rootCodegen = tree[child].codegenNode
       /\ tree[child].type # "ELEMENT" => rootCodegen = child
       /\ tree[child].codegenNode = NoRef => rootCodegen = child

\* The single child of the root is an Element that carries a codegenNode,
\* which is not the child itself, and the root has got its codegenNode
C8_Witness ==
  /\ phase = "done"
  /\ Len(tree[1].children) = 1
  /\ tree[tree[1].children[1]].type = "ELEMENT"
  /\ tree[tree[1].children[1]].codegenNode \notin {NoRef, tree[1].children[1]}
  /\ rootCodegen # NoRef

Range(seq) == {seq[i] : i \in DOMAIN seq}

\* C10: when transform is over, the root's helper list holds exactly the
\* names context.helper was called with, each of them once.
C10_RootHelpersDistinct ==
  phase = "done" =>
    /\ Range(rootHelpers) = Range(calls)
    /\ \A i, j \in DOMAIN rootHelpers :
         rootHelpers[i] = rootHelpers[j] => i = j

\* Two names were registered, one of them more than once
C10_Witness ==
  /\ phase = "done"
  /\ Len(rootHelpers) = 2
  /\ Len(calls) > 2

-----------------------------------------------------------------------------
(* Properties of baseCompile *)

\* C11: compile runs the transform pipeline with the fixed plugin list,
\* whatever nodeTransforms the caller's options held: the transform is
\* reached, with the options' nodeTransforms and the context's plugin list
\* both the fixed list.
C11_CompileRunsFixedTransforms ==
  <>(/\ compiling = "transform"
     /\ options = Array(FixedNodeTransforms)
     /\ nodeTransforms = FixedNodeTransforms)

-----------------------------------------------------------------------------
(* Properties of the parser, continued *)

\* Source the dispatch of parseChildren has no branch for: plain text, or a
\* closing-tag opener not followed by a letter
PlainText(s) ==
  /\ s # <<>>
  /\ ~startsWith(s, <<"{", "{">>)
  /\ CharAt(s, 0) # "<"

BadCloser(s) ==
  /\ startsWith(s, <<"<", "/">>)
  /\ ~LetterTest(CharAt(s, 2))

InLoopOnUnhandled ==
  /\ Running
  /\ Top.fn = "parseChildren"
  /\ PlainText(source) \/ BadCloser(source)

\* C12: when the remaining source begins with plain text or with "</" not
\* followed by a letter, the child loop still terminates: the parser does not
\* stay for ever in a parseChildren loop in front of such a source.
C12_UnhandledInputTerminates == []<>~InLoopOnUnhandled

\* C13: every call of advanceBy is asked to advance by at most the length of
\* the source that remains when it is called.
C13_AdvanceWithinSource == asked <= Len(before)

\* The source begins with the closing tag of an open element that is not
\* the innermost of the open elements
OuterCloser(s, open) ==
  /\ Len(open) >= 2
  /\ ~ClosesIgnoringCase(s, open[Len(open)].tag)
  /\ \E i \in 1..(Len(open) - 1) : ClosesIgnoringCase(s, open[i].tag)

\* C14: when the source starts with the closing tag of an outer open element
\* while a more deeply nested element is open, the inner element's child loop
\* stops there without consuming the tag, and the parse then fails with
\* MissingClosingTag naming the innermost open element.
C14_OuterCloserFailsInnermost ==
  [][/\ (/\ InFn("parseChildren", "while")
         /\ OuterCloser(source, ancestors))
          => (/\ source' = source
              /\ error' = NoError
              /\ Len(stack') = Len(stack) - 1
              /\ stack'[Len(stack')].fn = "parseElement"
              /\ stack'[Len(stack')].pc = "pop"
              /\ stack'[Len(stack')].element = ancestors[Len(ancestors)])
     /\ (/\ InFn("parseElement", "pop")
         /\ OuterCloser(source, ancestors))
          => (/\ source' = source
              /\ error' = NoError
              /\ stack'[Len(stack')].pc = "close"
              /\ stack'[Len(stack')].element = ancestors[Len(ancestors)])
     /\ (/\ InFn("parseElement", "close")
         /\ OuterCloser(source, Append(ancestors, Top.element)))
          => (/\ source' = source
              /\ error' = [type |-> "MissingClosingTag",
                           tag |-> Top.element.tag])]_vars

\* C15: an element is closed only by a closing tag of the same name: every
\* closing tag parseElement accepted for an element has, as its full name, the
\* element's tag name up to letter case.
C15_ClosedOnlyBySameName ==
  \A i \in 1..Len(closings) :
    ToLowerCase(closings[i][2]) = ToLowerCase(closings[i][1])

-----------------------------------------------------------------------------
(* Properties of the transform pipeline, continued *)

Reverse(seq) == [i \in 1..Len(seq) |-> seq[Len(seq) - i + 1]]

IsPrefix(s, t) ==
  /\ Len(s) <= Len(t)
  /\ s = SubSeq(t, 1, Len(s))

\* What a pre-order walk from a node leaves in the log: the visit of the
\* node, every plugin called on it in list order, then the walks from its
\* children in sequence order when it is a Root or an Element and nothing
\* when it is of another kind, then its cleanups, last plugin's first
RECURSIVE PreOrderLog(_), PreOrderLogs(_)
PreOrderLog(id) ==
  <<Visit(id)>>
  \o [i \in 1..Len(nodeTransforms) |-> [ev |-> "enter", plugin |-> i, node |-> id]]
  \o (IF tree[id].type \in {"ROOT", "ELEMENT"}
      THEN PreOrderLogs(tree[id].children)
      ELSE <<>>)
  \o [j \in 1..Cardinality({i \in DOMAIN nodeTransforms :
                              ReturnsCleanup(nodeTransforms[i], tree[id])}) |->
        [ev |-> "exit",
         plugin |-> Reverse(SortedSeq({i \in DOMAIN nodeTransforms :
                      ReturnsCleanup(nodeTransforms[i], tree[id])}))[j],
         node |-> id]]

PreOrderLogs(ids) ==
  IF ids = <<>> THEN <<>>
  ELSE PreOrderLog(Head(ids)) \o PreOrderLogs(Tail(ids))

\* C16: the walk is a pre-order walk that visits each node once: on a node
\* every plugin runs in list order before any child is visited, the children
\* of a Root or Element are visited in sequence order, the children of a node
\* of another kind are not visited, and the cleanups of a node run after all
\* its descendants were processed.  At every moment what has happened is the
\* beginning of that walk, and when the walk is over it is the whole of it.
C16_PreOrderWalk ==
  /\ IsPrefix(log, PreOrderLog(1))
  /\ WalkOver => log = PreOrderLog(1)

\* The walk is over on a root with two children, with two plugins of which
\* one returned cleanups
C16_Witness ==
  /\ phase = "done"
  /\ Len(tree[1].children) = 2
  /\ Len(nodeTransforms) = 2
  /\ \E p \in DOMAIN log : log[p].ev = "exit"
  /\ \E p, q \in DOMAIN log :
       /\ p < q
       /\ log[p] = Visit(tree[1].children[1])
       /\ log[q] = Visit(tree[1].children[2])

\* C17: transform on a root with no children fails in createRootCodegen:
\* the walk is complete by then, the step that selects the root's codegenNode
\* raises the error, and the root's codegenNode stays unset and its helper
\* list empty, whatever helpers the walk registered.
C17_EmptyRootFailsAtCodegen ==
  /\ [](tree[1].children = <<>> =>
          /\ phase \in {"traverse", "codegen", "thrown"}
          /\ rootCodegen = NoRef
          /\ rootHelpers = <<>>
          /\ failure # NoError =>
               /\ failure.type = "TypeError"
               /\ phase = "thrown"
               /\ walk = <<>>
               /\ log = PreOrderLog(1))
  /\ [][(tree[1].children = <<>> /\ phase = "codegen") =>
          /\ failure' # NoError
          /\ phase' = "thrown"]_vars

\* transform has failed on a root with no children after a walk in which
\* helpers were registered and a cleanup ran
C17_Witness ==
  /\ phase = "thrown"
  /\ tree[1].children = <<>>
  /\ failure.type = "TypeError"
  /\ helpers # <<>>
  /\ \E p \in DOMAIN log : log[p].ev = "exit"
  /\ rootHelpers = <<>>
  /\ rootCodegen = NoRef

-----------------------------------------------------------------------------
(* Properties of the ancestors stack *)

\* The elements of the calls of parseElement that have pushed their element
\* and not popped it yet, outermost first: those whose parseChildren call is
\* running or has just returned
RECURSIVE OpenElementsFrom(_, _)
OpenElementsFrom(frames, i) ==
  IF i > Len(frames) THEN <<>>
  ELSE IF /\ frames[i].fn = "parseElement"
          /\ \/ frames[i].pc = "pop"
             \/ i < Len(frames) /\ frames[i + 1].fn = "parseChildren"
       THEN <<frames[i].element>> \o OpenElementsFrom(frames, i + 1)
       ELSE OpenElementsFrom(frames, i + 1)

\* While the parse runs, ancestors holds the open elements in nesting order
AncestorsAreOpenElements ==
  Running => ancestors = OpenElementsFrom(stack, 1)

\* The step is the return of a call of parseElement
ElementReturns ==
  /\ InFn("parseElement", "attach")
  /\ Len(stack') = Len(stack) - 1

\* The step raises MissingClosingTag
RaisesMissingClosingTag ==
  /\ error = NoError
  /\ error'.type = "MissingClosingTag"

\* C18: ancestors holds, at every point of a parse, the open elements in
\* nesting order, and whenever a call of parseElement finishes, by returning
\* or with a MissingClosingTag error, ancestors is what it was when the call
\* began: this for every call the error ends, the one that raises it and the
\* calls around it.
C18_AncestorsRestored ==
  /\ []AncestorsAreOpenElements
  /\ [][/\ ElementReturns => ancestors' = Top.entry
        /\ RaisesMissingClosingTag =>
             \A i \in DOMAIN stack :
               stack[i].fn = "parseElement" => ancestors' = stack[i].entry]_vars

\* C18, amended: ancestors holds the open elements in nesting order, and is
\* what it was when the call began whenever a call of parseElement returns
\* or itself raises MissingClosingTag; every enclosing call of parseElement
\* that the error ends as well leaves its own element on ancestors.
C18_AncestorsRestoredByOwnCall ==
  /\ []AncestorsAreOpenElements
  /\ [][/\ ElementReturns => ancestors' = Top.entry
        /\ RaisesMissingClosingTag =>
             /\ Top.fn = "parseElement"
             /\ ancestors' = Top.entry
             /\ \A i \in 1..(Len(stack) - 1) :
                  stack[i].fn = "parseElement" =>
                    /\ ancestors' # stack[i].entry
                    /\ IsPrefix(Append(stack[i].entry, stack[i].element),
                                ancestors')]_vars

\* An element nested in another has raised MissingClosingTag, after its own
\* pop: the outer element is still on ancestors
C18_Witness ==
  /\ error.type = "MissingClosingTag"
  /\ ancestors # <<>>
  /\ ancestors[Len(ancestors)].tag # error.tag

-----------------------------------------------------------------------------
(* Properties of what parseChildren returns *)

\* C19: the nodes parsed in the loop of parseChildren are never collected,
\* and every call of parseChildren that returns, returns an empty sequence:
\* the children parseElement has got for its element, and the children of the
\* root baseParse returns, are an empty sequence.
C19_ChildrenEmptySequence ==
  /\ \A f \in Frames :
       /\ f.fn = "parseChildren" => f.nodes = <<>>
       /\ (f.fn = "parseElement" /\ f.pc \in {"pop", "close", "attach"}) =>
            f.children = Array(<<>>)
  /\ result # NotReturned => result.children = Array(<<>>)

-----------------------------------------------------------------------------
(* Properties of the helper registry *)

HelperNames == {TO_DISPLAY_STRING, CREATE_ELEMENT_VNODE}

\* C20: a helper registered at any time of the walk, a cleanup included, is in
\* the root's helper list when transform is over; the names are copied to the
\* root in one step, taken only when the whole walk, every cleanup and the
\* selection of the root's codegenNode are done; and a call of helper raises
\* the count of the name it is given by one and leaves every other count as
\* it is.
C20_HelpersCopiedAfterWalk ==
  /\ [](phase # "done" => rootHelpers = <<>>)
  /\ [](phase = "done" => Range(calls) \subseteq Range(rootHelpers))
  /\ [][/\ rootHelpers' # rootHelpers =>
             /\ phase = "helpers"
             /\ walk = <<>>
             /\ log = PreOrderLog(1)
             /\ rootCodegen # NoRef
             /\ rootHelpers' = Keys(helpers)
             /\ phase' = "done"
        /\ calls' # calls =>
             /\ Len(calls') = Len(calls) + 1
             /\ \A name \in HelperNames :
                  CountOf(helpers', name) =
                    IF name = calls'[Len(calls')]
                    THEN CountOf(helpers, name) + 1
                    ELSE CountOf(helpers, name)
        /\ calls' = calls => helpers' = helpers]_vars

\* transform is over; a helper was registered by a cleanup after another had
\* been registered during the walk, and both are in the root's list
C20_Witness ==
  /\ phase = "done"
  /\ \E p, q \in DOMAIN calls :
       /\ p < q
       /\ calls[p] = TO_DISPLAY_STRING
       /\ calls[q] = CREATE_ELEMENT_VNODE
  /\ HelperNames \subseteq Range(rootHelpers)

====
